---- MODULE Spec2Model ----
(***************************************************************************)
(* TopN voting engine of similari (src/track/voting/topn.rs).              *)
(*                                                                         *)
(* An engine TopNVoting {topn, max_distance, min_votes} is built once by   *)
(* TopNVoting::new and then shared by callers, each of which passes its    *)
(* own slice of ObservationMetricResult(track, attr_dist, feat_dist) to    *)
(* winners.  winners is modelled in the three stages of its body:          *)
(*   Filter : lines 55-65  filter / map / collect / sort_unstable          *)
(*   Count  : lines 66-75  counts() into a HashMap, iteration in the map's *)
(*                         (arbitrary) order, min_votes filter, map        *)
(*   Rank   : lines 76-78  stable sort_by on votes descending, truncate    *)
(***************************************************************************)
EXTENDS Integers, Sequences, FiniteSets

\* ------------------------------------------------------------------ bounds
MaxLen == 3        \* longest input slice of a single caller
AttrMaxLen == 2    \* longest input slice when the attribute distance varies too
SharedMaxLen == 2  \* longest input slice when two callers share the engine
MaxId == 2         \* track ids are 1..MaxId
MaxTopN == 2       \* topn ranges over 0..MaxTopN
MaxMinVotes == 2   \* min_votes ranges over 0..MaxMinVotes

\* ------------------------------------------------------------------ values
\* Option<T>: None is the empty sequence, Some(x) the one-element sequence.
None == << >>
Some(x) == << x >>

\* f32: a finite value or NaN.
NaN == [nan |-> TRUE, val |-> 0]
Fin(v) == [nan |-> FALSE, val |-> v]
\* the f32 values used: two finite ones (so that <, = and > all occur) and NaN
F32 == {NaN, Fin(0), Fin(1)}

\* f32 `<=` (PartialOrd): false as soon as one side is NaN.
FLe(a, b) == ~a.nan /\ ~b.nan /\ a.val <= b.val

OptF32 == {None} \cup {Some(f) : f \in F32}

\* ObservationMetricResult(track, attr_dist, feat_dist)
ObservationMetricResult == [track : 1..MaxId, attr : {None, Some(Fin(0))}, feat : OptF32]

\* candidates as the unit test builds them (attr_dist is Some(0.0), feat_dist is
\* finite), and candidates without a feat_dist
PlainResult == {r \in ObservationMetricResult : r.attr = Some(Fin(0)) /\ r.feat # Some(NaN)}

\* the two candidates of the unit test's fourth case: tracks 1 and 2, same distance
NearResult == {r \in PlainResult : r.track \in {1, 2} /\ r.feat = Some(Fin(0))}

SeqsUpTo(S, n) == UNION {[1..k -> S] : k \in 0..n}
Inputs == SeqsUpTo(PlainResult, MaxLen)
AttrInputs == SeqsUpTo(ObservationMetricResult, AttrMaxLen)
SharedInputs == SeqsUpTo(NearResult, SharedMaxLen)

Min(a, b) == IF a <= b THEN a ELSE b
Range(s) == {s[i] : i \in DOMAIN s}

\* ------------------------------------------------------------------ state
VARIABLES
    topn, max_distance, min_votes,   \* the engine (struct TopNVoting)
    distances,                       \* per caller: the slice it passes
    pc,                              \* per caller: "idle", "count", "rank", "done"
    tracks,                          \* per caller: local `tracks`
    counts,                          \* per caller: local `counts`
    result,                          \* per caller: value returned by the last call
    prev                             \* per caller: value returned by the call before

vars == << topn, max_distance, min_votes, distances, pc, tracks, counts, result, prev >>

\* ------------------------------------------------------------------ winners, lines 55-65
\* (variant) the bound taken as exclusive
FilterPredExclusive(omr, maxd) ==
    IF omr.feat = None THEN FALSE
    ELSE FLe(omr.feat[1], maxd) /\ ~FLe(maxd, omr.feat[1])

\* the closure of .filter(): Some(e) => e <= max_distance, _ => false
FilterPred(omr, maxd) == IF omr.feat = None THEN FALSE ELSE FLe(omr.feat[1], maxd)

\* .filter(..).map(|(track, _, _)| track).collect()
RECURSIVE FilterMap(_, _)
FilterMap(ds, maxd) ==
    IF ds = << >> THEN << >>
    ELSE IF FilterPred(Head(ds), maxd)
         THEN << Head(ds).track >> \o FilterMap(Tail(ds), maxd)
         ELSE FilterMap(Tail(ds), maxd)

\* tracks.sort_unstable(): ascending; equal ids are indistinguishable
RECURSIVE InsertAsc(_, _)
InsertAsc(x, s) ==
    IF s = << >> THEN << x >>
    ELSE IF x <= Head(s) THEN << x >> \o s
         ELSE << Head(s) >> \o InsertAsc(x, Tail(s))

RECURSIVE SortUnstable(_)
SortUnstable(s) == IF s = << >> THEN << >> ELSE InsertAsc(Head(s), SortUnstable(Tail(s)))

\* ------------------------------------------------------------------ winners, lines 66-75
\* (variant) a tally over a table with one slot per known track id
CountsTable(ts) == [t \in 1..MaxId |-> Cardinality({i \in DOMAIN ts : ts[i] = t})]

\* (variant) a tally that records the presence of an item, not its multiplicity
CountsPresence(ts) == [t \in Range(ts) |-> 1]

\* Itertools::counts(): HashMap from item to the number of its occurrences
Counts(ts) == [t \in Range(ts) |-> Cardinality({i \in DOMAIN ts : ts[i] = t})]

\* HashMap::into_iter(): every key once, in an order the map chooses
IterOrders(m) ==
    LET n == Cardinality(DOMAIN m)
    IN {o \in [1..n -> DOMAIN m] : \A i, j \in 1..n : i # j => o[i] # o[j]}

\* (variant) the threshold taken as exclusive
VotePredExclusive(count, minv) == count > minv

\* the closure of .filter(): *count >= self.min_votes
VotePred(count, minv) == count >= minv

\* .filter(..).map(|(e, c)| TopNVotingElt {track_id: *e, votes: c}).collect()
RECURSIVE FilterElts(_, _, _)
FilterElts(o, m, minv) ==
    IF o = << >> THEN << >>
    ELSE IF VotePred(m[Head(o)], minv)
         THEN << [track_id |-> Head(o), votes |-> m[Head(o)]] >> \o FilterElts(Tail(o), m, minv)
         ELSE FilterElts(Tail(o), m, minv)

\* ------------------------------------------------------------------ winners, lines 76-78
\* (variant) the comparator with its operands the other way round: ascending
BeforeAscending(l, r) == l.votes < r.votes

\* the comparator r.votes.partial_cmp(&l.votes): l goes before r iff l has more votes
Before(l, r) == l.votes > r.votes

\* (variant) an insertion that never looks at the votes
InsertFront(x, s) == << x >> \o s

\* counts.sort_by(..): stable; an element moves only past elements it goes Before
RECURSIVE InsertStable(_, _)
InsertStable(x, s) ==
    IF s = << >> THEN << x >>
    ELSE IF Before(x, Head(s)) THEN << x >> \o s
         ELSE << Head(s) >> \o InsertStable(x, Tail(s))

\* (variant) no ranking at all: the groups stay in the map's order
SortBySkipped(s) == s

RECURSIVE SortBy(_)
SortBy(s) ==
    IF s = << >> THEN << >>
    ELSE InsertStable(s[Len(s)], SortBy(SubSeq(s, 1, Len(s) - 1)))

\* (variant) a bound that is off by one
TruncateOffByOne(s, n) == SubSeq(s, 1, Min(n + 1, Len(s)))

\* counts.truncate(self.topn)
Truncate(s, n) == SubSeq(s, 1, Min(n, Len(s)))

\* (variant) the bound applied before the ranking
TruncateThenSort(cs, n) == SortBy(Truncate(cs, n))

\* lines 76-78: rank, then bound
Ranked(cs, n) == Truncate(SortBy(cs), n)

\* winners as a function of the slice and the configuration: every value a call
\* can return, one per iteration order of the count map
WinnersSet(ds, n, maxd, minv) ==
    LET m == Counts(SortUnstable(FilterMap(ds, maxd)))
    IN {Ranked(FilterElts(o, m, minv), n) : o \in IterOrders(m)}

\* ------------------------------------------------------------------ actions
\* TopNVoting::new: no validation of the arguments
New(n, d, v) == topn = n /\ max_distance = d /\ min_votes = v

InitCallers(C, In) ==
    /\ \E n \in 0..MaxTopN, d \in F32, v \in 0..MaxMinVotes : New(n, d, v)
    /\ distances \in [C -> In]
    /\ pc = [c \in C |-> "idle"]
    /\ tracks = [c \in C |-> << >>]
    /\ counts = [c \in C |-> << >>]
    /\ result = [c \in C |-> << >>]
    /\ prev = [c \in C |-> None]

Init == InitCallers({1}, Inputs)
InitAttr == InitCallers({1}, AttrInputs)
InitShared == InitCallers({1, 2}, SharedInputs)

\* (variant) the filter done with retain() on the caller's own vector
FilterRetain(c) ==
    /\ pc[c] \in {"idle", "done"}
    /\ distances' = [distances EXCEPT ![c] =
           SelectSeq(distances[c], LAMBDA r : FilterPred(r, max_distance))]
    /\ tracks' = [tracks EXCEPT ![c] = SortUnstable(FilterMap(distances[c], max_distance))]
    /\ prev' = [prev EXCEPT ![c] = IF pc[c] = "done" THEN Some(result[c]) ELSE None]
    /\ result' = [result EXCEPT ![c] = << >>]
    /\ counts' = [counts EXCEPT ![c] = << >>]
    /\ pc' = [pc EXCEPT ![c] = "count"]
    /\ UNCHANGED << topn, max_distance, min_votes >>

\* winners is entered (again, on the same slice) and runs lines 55-65
Filter(c) ==
    /\ pc[c] \in {"idle", "done"}
    /\ tracks' = [tracks EXCEPT ![c] = SortUnstable(FilterMap(distances[c], max_distance))]
    /\ prev' = [prev EXCEPT ![c] = IF pc[c] = "done" THEN Some(result[c]) ELSE None]
    /\ result' = [result EXCEPT ![c] = << >>]
    /\ counts' = [counts EXCEPT ![c] = << >>]
    /\ pc' = [pc EXCEPT ![c] = "count"]
    /\ UNCHANGED << topn, max_distance, min_votes, distances >>

\* lines 66-75
Count(c) ==
    /\ pc[c] = "count"
    /\ \E o \in IterOrders(Counts(tracks[c])) :
           counts' = [counts EXCEPT ![c] = FilterElts(o, Counts(tracks[c]), min_votes)]
    /\ tracks' = [tracks EXCEPT ![c] = << >>]
    /\ pc' = [pc EXCEPT ![c] = "rank"]
    /\ UNCHANGED << topn, max_distance, min_votes, distances, result, prev >>

\* lines 76-78 and the return
Rank(c) ==
    /\ pc[c] = "rank"
    /\ result' = [result EXCEPT ![c] = Ranked(counts[c], topn)]
    /\ counts' = [counts EXCEPT ![c] = << >>]
    /\ pc' = [pc EXCEPT ![c] = "done"]
    /\ UNCHANGED << topn, max_distance, min_votes, distances, tracks, prev >>

Next == \E c \in DOMAIN pc : Filter(c) \/ Count(c) \/ Rank(c)

Spec == Init /\ [][Next]_vars
SpecAttr == InitAttr /\ [][Next]_vars
SpecShared == InitShared /\ [][Next]_vars

\* ------------------------------------------------------------------ vocabulary of the properties
Callers == DOMAIN pc
Ids == 1..MaxId

\* the candidate's primary distance is present and within the inclusive bound
Counted(omr) == omr.feat # None /\ FLe(omr.feat[1], max_distance)

\* the number of candidates of slice ds that carry identity t and are counted
VoteCount(ds, t) == Cardinality({i \in DOMAIN ds : ds[i].track = t /\ Counted(ds[i])})

\* the identities that some candidate of the slice carries
InputIds(ds) == {ds[i].track : i \in DOMAIN ds}

\* the identities that reach the ranking step
Survivors(ds) == {t \in Ids : VoteCount(ds, t) >= 1 /\ VoteCount(ds, t) >= min_votes}

Occurrences(s, x) == Cardinality({i \in DOMAIN s : s[i] = x})
TrackIds(r) == {r[i].track_id : i \in DOMAIN r}
Votes(r) == [i \in DOMAIN r |-> r[i].votes]
Max(a, b) == IF a >= b THEN a ELSE b

\* the k-th largest vote count among the survivors
KthLargest(ds, k) ==
    CHOOSE v \in 1..Len(ds) :
        /\ Cardinality({t \in Survivors(ds) : VoteCount(ds, t) >= v}) >= k
        /\ Cardinality({t \in Survivors(ds) : VoteCount(ds, t) > v}) < k

\* truncation does not cut through a group of survivors with equal vote counts
NoTieCut(ds) ==
    Cardinality({t \in Survivors(ds) :
        Cardinality({u \in Survivors(ds) : VoteCount(ds, u) >= VoteCount(ds, t)}) <= topn})
    = Min(topn, Cardinality(Survivors(ds)))

\* ------------------------------------------------------------------ C1
\* C1: after the filter of winners, every identity has exactly as many entries in
\* `tracks` as the slice has candidates of that identity whose primary distance is
\* present and <= max_distance; absent, larger and NaN distances add nothing, a
\* distance equal to max_distance adds one, whatever the attribute distance is.
C1_FilterVotes ==
    \A c \in Callers : pc[c] = "count" =>
        /\ Len(tracks[c]) = Cardinality({i \in DOMAIN distances[c] : Counted(distances[c][i])})
        /\ \A t \in Ids : Occurrences(tracks[c], t) = VoteCount(distances[c], t)

\* two candidates of one identity at exactly max_distance, with different attribute
\* distances, were both counted
C1_Witness ==
    \E c \in Callers :
        /\ pc[c] = "count"
        /\ Len(distances[c]) = 2
        /\ distances[c][1].feat = Some(max_distance)
        /\ distances[c][2].feat = Some(max_distance)
        /\ distances[c][1].attr # distances[c][2].attr
        /\ distances[c][1].track = distances[c][2].track
        /\ Len(tracks[c]) = 2

\* ------------------------------------------------------------------ C2
\* C2: every element of the result has votes equal to the number of counted
\* candidates of its track_id, at least one; no track_id occurs twice.
C2_VotesAreCounts ==
    \A c \in Callers : pc[c] = "done" =>
        /\ \A i \in DOMAIN result[c] :
               /\ result[c][i].votes = VoteCount(distances[c], result[c][i].track_id)
               /\ result[c][i].votes >= 1
        /\ \A i, j \in DOMAIN result[c] :
               i # j => result[c][i].track_id # result[c][j].track_id

\* an identity got two votes from two candidates with different distances
C2_Witness ==
    \E c \in Callers :
        /\ pc[c] = "done"
        /\ \E i, j \in DOMAIN distances[c] :
               /\ distances[c][i].track = distances[c][j].track
               /\ distances[c][i].feat # distances[c][j].feat
               /\ Counted(distances[c][i]) /\ Counted(distances[c][j])
               /\ \E k \in DOMAIN result[c] :
                      /\ result[c][k].track_id = distances[c][i].track
                      /\ result[c][k].votes = 2

\* ------------------------------------------------------------------ C3
\* C3 as stated: an identity with fewer votes than min_votes is absent from the
\* result, one that has votes, exactly min_votes of them, is present.
C3_AsStated ==
    \A c \in Callers : pc[c] = "done" =>
        \A t \in InputIds(distances[c]) :
            /\ VoteCount(distances[c], t) < min_votes => t \notin TrackIds(result[c])
            /\ (VoteCount(distances[c], t) = min_votes /\ VoteCount(distances[c], t) >= 1)
                   => t \in TrackIds(result[c])

\* C3 amended: an identity with fewer votes than min_votes passes neither the
\* threshold nor into the result; one with exactly min_votes >= 1 votes passes the
\* threshold, and is in the result whenever at most topn identities pass it.
C3_Threshold ==
    \A c \in Callers : \A t \in InputIds(distances[c]) :
        /\ pc[c] = "rank" =>
               /\ VoteCount(distances[c], t) < min_votes => t \notin TrackIds(counts[c])
               /\ (VoteCount(distances[c], t) = min_votes /\ min_votes >= 1)
                      => t \in TrackIds(counts[c])
        /\ pc[c] = "done" =>
               /\ VoteCount(distances[c], t) < min_votes => t \notin TrackIds(result[c])
               /\ (/\ VoteCount(distances[c], t) = min_votes
                   /\ min_votes >= 1
                   /\ Cardinality(Survivors(distances[c])) <= topn)
                      => t \in TrackIds(result[c])

\* one identity with exactly min_votes votes is returned, another with fewer is not
C3_Witness ==
    \E c \in Callers :
        /\ pc[c] = "done"
        /\ min_votes >= 1
        /\ \E t, u \in InputIds(distances[c]) :
               /\ VoteCount(distances[c], t) = min_votes
               /\ t \in TrackIds(result[c])
               /\ VoteCount(distances[c], u) >= 1
               /\ VoteCount(distances[c], u) < min_votes
               /\ u \notin TrackIds(result[c])

\* ------------------------------------------------------------------ C4
\* C4: the result is no longer than min(topn, S), S the number of identities that
\* pass the threshold; when S <= topn exactly those S identities are returned; an
\* empty slice or topn = 0 gives an empty result.
C4_Length ==
    \A c \in Callers : pc[c] = "done" =>
        LET S == Cardinality(Survivors(distances[c]))
        IN /\ Len(result[c]) <= Min(topn, S)
           /\ S <= topn => /\ TrackIds(result[c]) = Survivors(distances[c])
                           /\ Len(result[c]) = S
           /\ (distances[c] = << >> \/ topn = 0) => result[c] = << >>

\* fewer identities than topn passed the threshold, and all of them came back
C4_Witness ==
    \E c \in Callers :
        /\ pc[c] = "done"
        /\ Cardinality(Survivors(distances[c])) = 1
        /\ Cardinality(InputIds(distances[c])) = 2
        /\ topn = 2
        /\ Len(result[c]) = 1

\* ------------------------------------------------------------------ C5
\* C5: in the result, each element has at least as many votes as the next one.
C5_Descending ==
    \A c \in Callers : pc[c] = "done" =>
        \A i \in 1..(Len(result[c]) - 1) : result[c][i].votes >= result[c][i + 1].votes

\* a result of two elements with different votes
C5_Witness ==
    \E c \in Callers :
        /\ pc[c] = "done"
        /\ Len(result[c]) = 2
        /\ result[c][1].votes > result[c][2].votes

\* ------------------------------------------------------------------ C6
\* C6: an identity that passes the threshold and is missing from the result has no
\* more votes than any element of the result.
C6_TopSurvive ==
    \A c \in Callers : pc[c] = "done" =>
        \A t \in Survivors(distances[c]) \ TrackIds(result[c]) :
            \A i \in DOMAIN result[c] : VoteCount(distances[c], t) <= result[c][i].votes

\* truncation dropped an identity with strictly fewer votes than the one kept
C6_Witness ==
    \E c \in Callers :
        /\ pc[c] = "done"
        /\ Len(result[c]) = 1
        /\ \E t \in Survivors(distances[c]) \ TrackIds(result[c]) :
               VoteCount(distances[c], t) < result[c][1].votes

\* ------------------------------------------------------------------ C7
\* C7 as stated: two calls on the same slice return the same set of elements.
C7_AsStated ==
    \A c \in Callers : (pc[c] = "done" /\ prev[c] # None) =>
        Range(result[c]) = Range(prev[c][1])

\* C7 amended: two calls on the same slice return the same set of elements
\* whenever truncation does not cut through a group of identities with equal
\* vote counts.
C7_SameSetUnlessTieCut ==
    \A c \in Callers : (pc[c] = "done" /\ prev[c] # None /\ NoTieCut(distances[c])) =>
        Range(result[c]) = Range(prev[c][1])

\* two calls returned the same elements in a different order
C7_Witness ==
    \E c \in Callers :
        /\ pc[c] = "done" /\ prev[c] # None
        /\ NoTieCut(distances[c])
        /\ result[c] # prev[c][1]
        /\ Range(result[c]) = Range(prev[c][1])

\* ------------------------------------------------------------------ C8
\* C8: no step of any call changes the configuration or any caller's slice, and
\* what a call returns is one of the values winners has for that call's own slice
\* and the configuration, whatever the other caller does.
C8_NoSideEffects ==
    /\ [][/\ topn' = topn /\ max_distance' = max_distance /\ min_votes' = min_votes
          /\ distances' = distances]_vars
    /\ [](\A c \in Callers : pc[c] = "done" =>
            result[c] \in WinnersSet(distances[c], topn, max_distance, min_votes))

\* one caller has returned twice while the other, on a different slice, is in the
\* middle of a call
C8_Witness ==
    /\ Cardinality(Callers) = 2
    /\ \E c, d \in Callers :
           /\ c # d
           /\ distances[c] # distances[d]
           /\ pc[c] = "done" /\ prev[c] # None /\ result[c] # << >>
           /\ pc[d] = "rank" /\ counts[d] # << >>
           /\ TrackIds(counts[d]) # TrackIds(result[c])

\* ------------------------------------------------------------------ C9
\* C9: with min_votes = 0 the identities that reach the ranking step are those with
\* at least one counted candidate and the call returns what it can return with
\* min_votes = 1 (and conversely); every element of a result has at least
\* max(1, min_votes) votes.
C9_ZeroThreshold ==
    \A c \in Callers :
        /\ (pc[c] = "rank" /\ min_votes = 0) =>
               TrackIds(counts[c]) = {t \in Ids : VoteCount(distances[c], t) >= 1}
        /\ (pc[c] = "done" /\ min_votes = 0) =>
               result[c] \in WinnersSet(distances[c], topn, max_distance, 1)
        /\ (pc[c] = "done" /\ min_votes = 1) =>
               result[c] \in WinnersSet(distances[c], topn, max_distance, 0)
        /\ pc[c] = "done" =>
               \A i \in DOMAIN result[c] : result[c][i].votes >= Max(1, min_votes)

\* min_votes = 0, one identity lost all its candidates to the filter, another is returned
C9_Witness ==
    \E c \in Callers :
        /\ pc[c] = "done"
        /\ min_votes = 0
        /\ result[c] # << >>
        /\ \E t \in InputIds(distances[c]) :
               VoteCount(distances[c], t) = 0 /\ t \notin TrackIds(result[c])

\* ------------------------------------------------------------------ C10
\* C10: the votes of the result, position by position, are the topn largest vote
\* counts among the identities that pass the threshold, in descending order; two
\* calls on the same slice give the same sequence of votes.
C10_VoteProfile ==
    \A c \in Callers : pc[c] = "done" =>
        /\ Votes(result[c]) =
               [k \in 1..Min(topn, Cardinality(Survivors(distances[c]))) |->
                   KthLargest(distances[c], k)]
        /\ prev[c] # None => Votes(result[c]) = Votes(prev[c][1])

\* two calls kept different identities of a tie, with the same votes
C10_Witness ==
    \E c \in Callers :
        /\ pc[c] = "done" /\ prev[c] # None
        /\ TrackIds(result[c]) # TrackIds(prev[c][1])
        /\ Votes(result[c]) = Votes(prev[c][1])
        /\ result[c] # << >>

====
